---------------------------- MODULE Spec2Model ----------------------------
(***************************************************************************)
(* The compound-component example of the frontend knowledge base:          *)
(* PostCardComponent (the provider), its five leaves Id, Title, Content,   *)
(* Author and Actions, and the usePostCardContext guard.                    *)
(*                                                                         *)
(* One behaviour is one render pass over an element tree composed by the   *)
(* caller.  The tree is kept as the sequence of JSX elements in document   *)
(* order: an opening PostCardComponent (with its post), an opening div, a  *)
(* closing tag, or one of the five self-closing leaves.  Rendering walks   *)
(* that sequence: the provider pushes its value on the context stack when  *)
(* its subtree is entered and pops it when the subtree is left, and        *)
(* useContext reads the top of that stack or the default of createContext. *)
(***************************************************************************)
EXTENDS Integers, Sequences, FiniteSets, TLC

\* ---------------------------------------------------------------- bounds
MaxLen == 4          \* tags of a pass with one card, over every post
MaxPageLen == 5      \* tags of a pass with several cards, over CardPosts
MaxProviders == 2    \* PostCardComponent elements of such a pass
MaxCardLen == 6      \* tags of a pass that renders one whole card
MaxAntiCards == 2    \* AntiPostCard elements of a pass
MaxListeners == 3    \* subscribe calls on one UserStore
MaxLog == 6          \* lines the listeners write to the console

\* ------------------------------------------------------------ JS values
Undefined == [type |-> "undefined"]
Bool(b) == [type |-> "boolean", val |-> b]
Obj(p) == [type |-> "object", post |-> p]

\* ToBoolean of the values that occur: undefined, booleans, objects.
ToBoolean(v) ==
    CASE v.type = "undefined" -> FALSE
      [] v.type = "boolean" -> v.val
      [] v.type = "object" -> TRUE

Digit(d) ==
    CASE d = 0 -> "0" [] d = 1 -> "1" [] d = 2 -> "2" [] d = 3 -> "3"
      [] d = 4 -> "4" [] d = 5 -> "5" [] d = 6 -> "6" [] d = 7 -> "7"
      [] d = 8 -> "8" [] d = 9 -> "9"

\* The text React puts in the document for a number child {post.id}.
RECURSIVE NumberText(_)
NumberText(n) ==
    IF n < 10 THEN Digit(n) ELSE NumberText(n \div 10) \o Digit(n % 10)

\* ------------------------------------------------------------- records
Ids == {0, 3}
Titles == {"", "T"}
Contents == {"", "B"}
Names == {"A"}
Flags == {Undefined, Bool(TRUE), Bool(FALSE)}

\* PostCardProps; user.id is the post id in every example of the source.
PostCardProps ==
    { [id |-> i, title |-> t, content |-> c,
       user |-> [id |-> i, name |-> n], isOnProfilePage |-> f] :
        i \in Ids, t \in Titles, c \in Contents, n \in Names, f \in Flags }

\* The post of the documented scenario, and a second one that differs from it
\* in every field, as the posts of App differ from one another.
ScenarioPost ==
    [id |-> 3, title |-> "T", content |-> "B",
     user |-> [id |-> 3, name |-> "A"], isOnProfilePage |-> Bool(FALSE)]
ProfilePost ==
    [id |-> 12, title |-> "U", content |-> "C",
     user |-> [id |-> 12, name |-> "Z"], isOnProfilePage |-> Bool(TRUE)]
CardPosts == {ScenarioPost, ProfilePost}

\* What a caller composes: one card, for every post, and pages of several
\* cards (side by side or nested) over the two posts above.
Pages ==
    { [posts |-> PostCardProps, size |-> MaxLen, providers |-> 1],
      [posts |-> CardPosts, size |-> MaxPageLen, providers |-> MaxProviders] }

\* One whole card of the documented scenario.
CardPage == [posts |-> {ScenarioPost}, size |-> MaxCardLen, providers |-> 1]

\* A whole card, for a post with each value of isOnProfilePage.
FalsyPost ==
    [id |-> 0, title |-> "", content |-> "",
     user |-> [id |-> 0, name |-> "A"], isOnProfilePage |-> Undefined]
ComparePage ==
    [posts |-> CardPosts \cup {FalsyPost}, size |-> MaxCardLen, providers |-> 1]

\* AntiPostCardProps: the post and shouldDisplayButtons, which the first App
\* leaves out.
WithButtons(post, b) ==
    [id |-> post.id, title |-> post.title, content |-> post.content,
     user |-> post.user, isOnProfilePage |-> post.isOnProfilePage,
     shouldDisplayButtons |-> b]
AntiPostCardProps == {WithButtons(post, b) : post \in PostCardProps, b \in Flags}
AntiPage == [posts |-> AntiPostCardProps, size |-> MaxAntiCards, providers |-> 0]

\* ------------------------------------------------------------- elements
LeafTypes == {"PostCardId", "PostCardTitle", "PostCardContent",
              "PostCardAuthor", "PostCardActions"}

ErrorMessage == "PostCardComponent.Title must be used within a PostCardComponent"

VARIABLES
    page,      \* the posts the caller has and the number of elements it composes
    tree,      \* the elements rendered so far, in document order
    open,      \* the elements entered and not yet left (innermost last)
    ctx,       \* React's stack of PostCardContext.Provider values
    output,    \* the rendered fragments, in document order
    status,    \* "rendering", "done" or "error"
    error,     \* the message of the thrown Error, "" when none
    user,      \* UserStore.user
    listeners, \* UserStore.listeners, in the order of subscription
    log        \* the lines written by console.log, oldest first

storeVars == <<user, listeners, log>>
renderVars == <<page, tree, open, ctx, output, status, error>>
vars == <<page, tree, open, ctx, output, status, error, user, listeners, log>>

\* ------------------------------------------------------------ UserStore
Null == [type |-> "null"]
Users == {[name |-> "ABC"], [name |-> "XYZ"]}
Observers == {"Header", "Sidebar", "Dashboard"}

\* user => { console.log("Header updated:", user.name) }: the line written.
Listener(observer, u) == observer \o " updated:" \o " " \o u.name

\* this.listeners.forEach(listener => listener(user))
RECURSIVE forEach(_, _, _)
forEach(ls, u, console) ==
    IF ls = <<>> THEN console
    ELSE forEach(Tail(ls), u, Append(console, Listener(Head(ls), u)))

\* forEach walking the listeners from the last subscribed to the first.
RECURSIVE forEachReversed(_, _, _)
forEachReversed(ls, u, console) ==
    IF ls = <<>> THEN console
    ELSE forEachReversed(SubSeq(ls, 1, Len(ls) - 1), u,
                         Append(console, Listener(ls[Len(ls)], u)))

\* subscribe(listener)
subscribe(observer) ==
    /\ Len(listeners) < MaxListeners
    /\ listeners' = Append(listeners, observer)
    /\ UNCHANGED <<renderVars, user, log>>

\* setUser notifying the observers in the reverse of the subscription order.
setUserReversed(u) ==
    /\ Len(log) + Len(listeners) <= MaxLog
    /\ user' = u
    /\ log' = forEachReversed(listeners, u, log)
    /\ UNCHANGED <<renderVars, listeners>>

\* setUser(user)
setUser(u) ==
    /\ Len(log) + Len(listeners) <= MaxLog
    /\ user' = u
    /\ log' = forEach(listeners, u, log)
    /\ UNCHANGED <<renderVars, listeners>>

NextStore ==
    \/ \E observer \in Observers : subscribe(observer)
    \/ \E u \in Users : setUser(u)

\* createContext<PostCardContextType | undefined>(undefined)
PostCardContext == Undefined

\* useContext reading the outermost provider instead of the nearest one.
useContextOutermost(stack) ==
    IF stack = <<>> THEN PostCardContext ELSE stack[1]

\* React.useContext(PostCardContext): the value of the nearest provider
\* being rendered, the default when there is none.
useContext(stack) ==
    IF stack = <<>> THEN PostCardContext ELSE stack[Len(stack)]

\* The guard testing a field of the post instead of the presence of the value:
\* it also throws inside a provider whose post has id 0.
usePostCardContextFalsyId(stack) ==
    LET context == useContext(stack) IN
    IF ~ToBoolean(context) \/ context.post.id = 0
    THEN [threw |-> TRUE, value |-> Undefined]
    ELSE [threw |-> FALSE, value |-> context]

\* usePostCardContext: [threw |-> TRUE] or [threw |-> FALSE, value |-> context]
usePostCardContext(stack) ==
    LET context == useContext(stack) IN
    IF ~ToBoolean(context)
    THEN [threw |-> TRUE, value |-> Undefined]
    ELSE [threw |-> FALSE, value |-> context]

Fragment(at, leaf, el, text) ==
    [at |-> at, leaf |-> leaf, el |-> el, text |-> text]

Start ==
    /\ tree = <<>>
    /\ open = <<>>
    /\ ctx = <<>>
    /\ output = <<>>
    /\ status = "rendering"
    /\ error = ""
    /\ user = Null
    /\ listeners = <<>>
    /\ log = <<>>

Init == page \in Pages /\ Start

InitCard == page = CardPage /\ Start

InitCompare == page = ComparePage /\ Start

InitAnti == page = AntiPage /\ Start

CanRender == status = "rendering" /\ Len(tree) < page.size

\* The Error naming the leaf that was misused.
ThrowNamingLeaf ==
    /\ status' = "error"
    /\ error' = tree'[Len(tree')].type \o " must be used within a PostCardComponent"
    /\ output' = <<>>
    /\ open' = <<>>
    /\ ctx' = <<>>

\* An Error thrown while rendering, with no error boundary in the tree:
\* the pass is abandoned and nothing is put in the document.
Throw ==
    /\ status' = "error"
    /\ error' = ErrorMessage
    /\ output' = <<>>
    /\ open' = <<>>
    /\ ctx' = <<>>


\* ------------------------------------------------------------ provider
\* <PostCardContext.Provider value={{ post }}>: the value put on the channel.
ProviderValue(post) == Obj(post)

\* Entering the provider's subtree makes its value the current one.
PushProvider(stack, value) == Append(stack, value)

\* Leaving a provider clears the channel instead of restoring the outer value.
PopProviderReset(stack) == <<>>

\* Leaving a provider leaves its value on the channel.
PopProviderLeak(stack) == stack

\* Leaving the provider's subtree restores the value that was current before.
PopProvider(stack) == SubSeq(stack, 1, Len(stack) - 1)

NumProviders(t) ==
    Cardinality({i \in 1..Len(t) : t[i].type = "PostCardComponent"})

\* The provider validating its post: it throws on a post with an empty title.
PostCardComponentValidating(post) ==
    /\ CanRender
    /\ NumProviders(tree) < page.providers
    /\ tree' = Append(tree, [type |-> "PostCardComponent", post |-> post])
    /\ UNCHANGED <<storeVars, page>>
    /\ IF post.title = ""
       THEN Throw
       ELSE /\ open' = Append(open, "PostCardComponent")
            /\ ctx' = PushProvider(ctx, ProviderValue(post))
            /\ output' = output \o
                  <<Fragment(Len(tree) + 1, "PostCardComponent", "div", "")>>
            /\ UNCHANGED <<status, error>>

\* The provider rendering the action buttons itself after its wrapper, as
\* AntiPostCard does, whether or not the caller composed an Actions leaf.
PostCardComponentWithButtons(post) ==
    /\ CanRender
    /\ NumProviders(tree) < page.providers
    /\ tree' = Append(tree, [type |-> "PostCardComponent", post |-> post])
    /\ open' = Append(open, "PostCardComponent")
    /\ ctx' = PushProvider(ctx, ProviderValue(post))
    /\ output' = output \o
          <<Fragment(Len(tree) + 1, "PostCardComponent", "div", ""),
            Fragment(Len(tree) + 1, "PostCardActions", "button", "Read More"),
            Fragment(Len(tree) + 1, "PostCardActions", "button", "Like")>>
    /\ UNCHANGED <<storeVars, page, status, error>>

\* The provider with one value shared by all its instances: the value made
\* for the first instance rendered is reused by the later ones.
PostCardComponentShared(post) ==
    /\ CanRender
    /\ NumProviders(tree) < page.providers
    /\ tree' = Append(tree, [type |-> "PostCardComponent", post |-> post])
    /\ open' = Append(open, "PostCardComponent")
    /\ ctx' = PushProvider(ctx,
          IF NumProviders(tree) = 0 THEN ProviderValue(post)
          ELSE ProviderValue(
                 tree[CHOOSE i \in 1..Len(tree) :
                        /\ tree[i].type = "PostCardComponent"
                        /\ \A k \in 1..(i - 1) :
                              tree[k].type # "PostCardComponent"].post))
    /\ output' = output \o
          <<Fragment(Len(tree) + 1, "PostCardComponent", "div", "")>>
    /\ UNCHANGED <<storeVars, page, status, error>>

\* PostCardComponent({ children, post }): provider, wrapper div, children.
PostCardComponent(post) ==
    /\ CanRender
    /\ NumProviders(tree) < page.providers
    /\ tree' = Append(tree, [type |-> "PostCardComponent", post |-> post])
    /\ open' = Append(open, "PostCardComponent")
    /\ ctx' = PushProvider(ctx, ProviderValue(post))
    /\ output' = output \o
          <<Fragment(Len(tree) + 1, "PostCardComponent", "div", "")>>
    /\ UNCHANGED <<storeVars, page, status, error>>

\* </PostCardComponent>: the children are rendered, the subtree is left.
EndPostCardComponent ==
    /\ CanRender
    /\ open # <<>>
    /\ open[Len(open)] = "PostCardComponent"
    /\ tree' = Append(tree, [type |-> "end"])
    /\ open' = SubSeq(open, 1, Len(open) - 1)
    /\ ctx' = PopProvider(ctx)
    /\ UNCHANGED <<storeVars, page, output, status, error>>

\* <div className='p-6'>: wrapper markup the caller interleaves.
Div ==
    /\ CanRender
    /\ tree' = Append(tree, [type |-> "div"])
    /\ open' = Append(open, "div")
    /\ output' = output \o <<Fragment(Len(tree) + 1, "div", "div", "")>>
    /\ UNCHANGED <<storeVars, page, ctx, status, error>>

EndDiv ==
    /\ CanRender
    /\ open # <<>>
    /\ open[Len(open)] = "div"
    /\ tree' = Append(tree, [type |-> "end"])
    /\ open' = SubSeq(open, 1, Len(open) - 1)
    /\ UNCHANGED <<storeVars, page, ctx, output, status, error>>

\* --------------------------------------------------------------- leaves
\* Each leaf is a function of the context stack and of its place in the
\* tree; it returns whether it threw and the fragments it rendered.
Rendered(frags) == [threw |-> FALSE, out |-> frags]
Thrown == [threw |-> TRUE, out |-> <<>>]

PostCardId(stack, at) ==
    LET r == usePostCardContext(stack) IN
    IF r.threw THEN Thrown
    ELSE Rendered(<<Fragment(at, "PostCardId", "div",
                             NumberText(r.value.post.id))>>)

\* Title with the field of its neighbour: the h2 shows post.content.
PostCardTitleShowsContent(stack, at) ==
    LET r == usePostCardContext(stack) IN
    IF r.threw THEN Thrown
    ELSE Rendered(<<Fragment(at, "PostCardTitle", "h2",
                             r.value.post.content)>>)

PostCardTitle(stack, at) ==
    LET r == usePostCardContext(stack) IN
    IF r.threw THEN Thrown
    ELSE Rendered(<<Fragment(at, "PostCardTitle", "h2", r.value.post.title)>>)

\* Content that renders nothing, instead of throwing, without a provider.
PostCardContentSilent(stack, at) ==
    IF ~ToBoolean(useContext(stack)) THEN Rendered(<<>>)
    ELSE Rendered(<<Fragment(at, "PostCardContent", "p",
                             useContext(stack).post.content)>>)

PostCardContent(stack, at) ==
    LET r == usePostCardContext(stack) IN
    IF r.threw THEN Thrown
    ELSE Rendered(<<Fragment(at, "PostCardContent", "p",
                             r.value.post.content)>>)

\* Author failing on a post that does not carry isOnProfilePage.
PostCardAuthorRequiresFlag(stack, at) ==
    LET r == usePostCardContext(stack) IN
    IF r.threw THEN Thrown
    ELSE IF r.value.post.isOnProfilePage = Undefined THEN Thrown
    ELSE IF ToBoolean(r.value.post.isOnProfilePage) THEN Rendered(<<>>)
    ELSE Rendered(<<Fragment(at, "PostCardAuthor", "p",
                             "By " \o r.value.post.user.name)>>)

\* Author shown only when isOnProfilePage is exactly false.
PostCardAuthorStrictFalse(stack, at) ==
    LET r == usePostCardContext(stack) IN
    IF r.threw THEN Thrown
    ELSE IF r.value.post.isOnProfilePage # Bool(FALSE) THEN Rendered(<<>>)
    ELSE Rendered(<<Fragment(at, "PostCardAuthor", "p",
                             "By " \o r.value.post.user.name)>>)

\* Author with the test on isOnProfilePage negated.
PostCardAuthorInverted(stack, at) ==
    LET r == usePostCardContext(stack) IN
    IF r.threw THEN Thrown
    ELSE IF ~ToBoolean(r.value.post.isOnProfilePage) THEN Rendered(<<>>)
    ELSE Rendered(<<Fragment(at, "PostCardAuthor", "p",
                             "By " \o r.value.post.user.name)>>)

PostCardAuthor(stack, at) ==
    LET r == usePostCardContext(stack) IN
    IF r.threw THEN Thrown
    ELSE IF ToBoolean(r.value.post.isOnProfilePage) THEN Rendered(<<>>)
    ELSE Rendered(<<Fragment(at, "PostCardAuthor", "p",
                             "By " \o r.value.post.user.name)>>)

\* Actions with a third button that AntiPostCard does not have.
PostCardActionsWithShare(stack, at) ==
    Rendered(<<Fragment(at, "PostCardActions", "button", "Read More"),
               Fragment(at, "PostCardActions", "button", "Like"),
               Fragment(at, "PostCardActions", "button", "Share")>>)

\* Actions reading the post: no buttons on the profile page.
PostCardActionsOnProfile(stack, at) ==
    IF stack # <<>> /\ ToBoolean(useContext(stack).post.isOnProfilePage)
    THEN Rendered(<<>>)
    ELSE Rendered(<<Fragment(at, "PostCardActions", "button", "Read More"),
                    Fragment(at, "PostCardActions", "button", "Like")>>)

\* PostCardActions does not call usePostCardContext.
PostCardActions(stack, at) ==
    Rendered(<<Fragment(at, "PostCardActions", "button", "Read More"),
               Fragment(at, "PostCardActions", "button", "Like")>>)

\* A leaf that tidies the post it was given, in place: it blanks the title
\* of the value on the channel.
RenderLeafWriting(type, result) ==
    /\ CanRender
    /\ tree' = Append(tree, [type |-> type])
    /\ UNCHANGED <<storeVars, page>>
    /\ IF result.threw
       THEN Throw
       ELSE /\ output' = output \o result.out
            /\ ctx' = IF ctx = <<>> THEN ctx
                      ELSE [ctx EXCEPT ![Len(ctx)].post.title = ""]
            /\ UNCHANGED <<open, status, error>>

\* Children put in the document in reverse: each new fragment goes first.
RenderLeafReversed(type, result) ==
    /\ CanRender
    /\ tree' = Append(tree, [type |-> type])
    /\ UNCHANGED <<storeVars, page>>
    /\ IF result.threw
       THEN Throw
       ELSE /\ output' = result.out \o output
            /\ UNCHANGED <<open, ctx, status, error>>

RenderLeaf(type, result) ==
    /\ CanRender
    /\ tree' = Append(tree, [type |-> type])
    /\ UNCHANGED <<storeVars, page>>
    /\ IF result.threw
       THEN Throw
       ELSE /\ output' = output \o result.out
            /\ UNCHANGED <<open, ctx, status, error>>

RenderId == RenderLeaf("PostCardId", PostCardId(ctx, Len(tree) + 1))
RenderTitle == RenderLeaf("PostCardTitle", PostCardTitle(ctx, Len(tree) + 1))
RenderContent ==
    RenderLeaf("PostCardContent", PostCardContent(ctx, Len(tree) + 1))
RenderAuthor ==
    RenderLeaf("PostCardAuthor", PostCardAuthor(ctx, Len(tree) + 1))
RenderActions ==
    RenderLeaf("PostCardActions", PostCardActions(ctx, Len(tree) + 1))

\* ---------------------------------------------------------- AntiPostCard
\* AntiPostCard with the two flags tied: the buttons follow isOnProfilePage.
AntiPostCardTied(post, at) ==
    <<Fragment(at, "AntiPostCard", "div", ""),
      Fragment(at, "AntiPostCard", "div", NumberText(post.id)),
      Fragment(at, "AntiPostCard", "div", ""),
      Fragment(at, "AntiPostCard", "h2", post.title),
      Fragment(at, "AntiPostCard", "p", post.content)>>
    \o (IF ~ToBoolean(post.isOnProfilePage)
        THEN <<Fragment(at, "AntiPostCard", "p", "By " \o post.user.name)>>
        ELSE <<>>)
    \o (IF ~ToBoolean(post.isOnProfilePage)
        THEN <<Fragment(at, "AntiPostCard", "button", "Read More"),
               Fragment(at, "AntiPostCard", "button", "Like")>>
        ELSE <<>>)

\* AntiPostCard({ post }): the card div, the id block, the p-6 div with the
\* title, the content, the author line and the two buttons.
AntiPostCard(post, at) ==
    <<Fragment(at, "AntiPostCard", "div", ""),
      Fragment(at, "AntiPostCard", "div", NumberText(post.id)),
      Fragment(at, "AntiPostCard", "div", ""),
      Fragment(at, "AntiPostCard", "h2", post.title),
      Fragment(at, "AntiPostCard", "p", post.content)>>
    \o (IF ~ToBoolean(post.isOnProfilePage)
        THEN <<Fragment(at, "AntiPostCard", "p", "By " \o post.user.name)>>
        ELSE <<>>)
    \o (IF ToBoolean(post.shouldDisplayButtons)
        THEN <<Fragment(at, "AntiPostCard", "button", "Read More"),
               Fragment(at, "AntiPostCard", "button", "Like")>>
        ELSE <<>>)

\* <AntiPostCard post={...} />
RenderAntiPostCard(post) ==
    /\ CanRender
    /\ tree' = Append(tree, [type |-> "AntiPostCard", post |-> post])
    /\ output' = output \o AntiPostCard(post, Len(tree) + 1)
    /\ UNCHANGED <<storeVars, page, open, ctx, status, error>>

\* Every element is closed: the pass is complete and the output committed.
Commit ==
    /\ status = "rendering"
    /\ tree # <<>>
    /\ open = <<>>
    /\ status' = "done"
    /\ UNCHANGED <<storeVars, page, tree, open, ctx, output, error>>

Next ==
    \/ \E post \in page.posts : PostCardComponent(post)
    \/ EndPostCardComponent
    \/ Div
    \/ EndDiv
    \/ RenderId
    \/ RenderTitle
    \/ RenderContent
    \/ RenderAuthor
    \/ RenderActions
    \/ Commit

Spec == Init /\ [][Next]_vars

\* The same render, of one whole card.
SpecCard == InitCard /\ [][Next]_vars

\* The same render, of one whole card for three posts.
SpecCompare == InitCompare /\ [][Next]_vars

\* A pass of AntiPostCard elements.
NextAnti ==
    \/ \E post \in page.posts : RenderAntiPostCard(post)
    \/ Commit

SpecAnti == InitAnti /\ [][NextAnti]_vars

\* The UserStore of the Observer example; nothing is rendered.
SpecStore == InitCard /\ [][NextStore]_vars

TypeOK ==
    /\ status \in {"rendering", "done", "error"}
    /\ page \in Pages \cup {CardPage, ComparePage, AntiPage}
    /\ Len(tree) <= page.size
    /\ Len(ctx) <= Len(open)
    /\ error \in {"", ErrorMessage}

\* ------------------------------------------------ the tree, structurally
\* These definitions read the composed tree alone, not the context stack.
IsOpener(n) == n.type \in {"PostCardComponent", "div"}
IsProvider(n) == n.type = "PostCardComponent"
GuardedLeafTypes == LeafTypes \ {"PostCardActions"}

\* The index of the closing tag that ends nesting level d, scanning from j;
\* Len(t) + 2, past the next position, when that element is still open.
RECURSIVE Scan(_, _, _)
Scan(t, j, d) ==
    IF j > Len(t) THEN Len(t) + 2
    ELSE IF t[j].type = "end"
         THEN IF d = 1 THEN j ELSE Scan(t, j + 1, d - 1)
         ELSE IF IsOpener(t[j]) THEN Scan(t, j + 1, d + 1)
         ELSE Scan(t, j + 1, d)

CloseOf(t, i) == Scan(t, i + 1, 1)

\* Element i is an ancestor of position j.
Encloses(t, i, j) ==
    /\ i \in 1..Len(t)
    /\ IsOpener(t[i])
    /\ i < j
    /\ j < CloseOf(t, i)

EnclosingProviders(t, j) ==
    {i \in 1..Len(t) : IsProvider(t[i]) /\ Encloses(t, i, j)}

\* The nearest provider ancestor of position j, 0 when there is none.
NearestProvider(t, j) ==
    LET S == EnclosingProviders(t, j) IN
    IF S = {} THEN 0 ELSE CHOOSE i \in S : \A k \in S : k <= i

\* Two providers neither of which contains the other.
Siblings(t, p, q) ==
    /\ p \in 1..Len(t) /\ q \in 1..Len(t)
    /\ IsProvider(t[p]) /\ IsProvider(t[q])
    /\ p < q
    /\ CloseOf(t, p) < q

Positions == 1..Len(tree)
FragmentsAt(j) == SelectSeq(output, LAMBDA f : f.at = j)
TextsAt(j) == [k \in 1..Len(FragmentsAt(j)) |-> FragmentsAt(j)[k].text]
LeafFragments == SelectSeq(output, LAMBDA f : f.leaf \in LeafTypes)
LeafTexts == [k \in 1..Len(LeafFragments) |-> LeafFragments[k].text]

\* The document text expected for the ids and author names of the posts.
IdText(i) == CASE i = 0 -> "0" [] i = 3 -> "3" [] i = 12 -> "12"
AuthorText(n) == CASE n = "A" -> "By A" [] n = "Z" -> "By Z"

\* The texts a leaf of the given type shows for post r.
LeafText(type, r) ==
    CASE type = "PostCardId" -> <<IdText(r.id)>>
      [] type = "PostCardTitle" -> <<r.title>>
      [] type = "PostCardContent" -> <<r.content>>
      [] type = "PostCardAuthor" ->
            IF r.isOnProfilePage = Bool(TRUE) THEN <<>>
            ELSE <<AuthorText(r.user.name)>>
      [] type = "PostCardActions" -> <<"Read More", "Like">>

\* ------------------------------------------------------------------- C1
\* C1 (as claimed): every one of the five leaves, rendered at a position
\* with no enclosing PostCardComponent, raises the missing-provider error.
C1_EveryLeafRaisesOutsideProvider ==
    \A j \in Positions :
        (tree[j].type \in LeafTypes /\ NearestProvider(tree, j) = 0)
            => (status = "error" /\ error = ErrorMessage)

\* ------------------------------------------------------------------- C2
\* C2: inside Provider(R), whatever leaves and wrapper markup surround it
\* and in whatever order, an Id, Title or Content leaf whose nearest
\* provider is Provider(R) renders exactly R.id, R.title, R.content.
C2_LeafRendersOwnField ==
    status # "error" =>
        \A j \in Positions :
            LET p == NearestProvider(tree, j) IN
            p # 0 =>
                /\ tree[j].type = "PostCardId" =>
                      TextsAt(j) = <<IdText(tree[p].post.id)>>
                /\ tree[j].type = "PostCardTitle" =>
                      TextsAt(j) = <<tree[p].post.title>>
                /\ tree[j].type = "PostCardContent" =>
                      TextsAt(j) = <<tree[p].post.content>>

\* A provider, a wrapper div in it, and inside the div a Content leaf
\* followed by an Id leaf, both rendered from the provider's post.
C2_Witness ==
    /\ status # "error"
    /\ \E p, d, i, j \in Positions :
          /\ p < d /\ d < i /\ i < j
          /\ IsProvider(tree[p]) /\ tree[d].type = "div"
          /\ Encloses(tree, d, j)
          /\ tree[i].type = "PostCardContent" /\ tree[j].type = "PostCardId"
          /\ NearestProvider(tree, i) = p /\ NearestProvider(tree, j) = p
          /\ TextsAt(i) = <<tree[p].post.content>>
          /\ TextsAt(j) = <<IdText(tree[p].post.id)>>

\* ------------------------------------------------------------------- C3
\* C3: the Author leaf inside Provider(R) renders nothing when
\* R.isOnProfilePage is true and "By {R.user.name}" otherwise.
C3_AuthorRule ==
    status # "error" =>
        \A j \in Positions :
            LET p == NearestProvider(tree, j) IN
            (tree[j].type = "PostCardAuthor" /\ p # 0) =>
                IF tree[p].post.isOnProfilePage = Bool(TRUE)
                THEN FragmentsAt(j) = <<>>
                ELSE /\ TextsAt(j) = <<AuthorText(tree[p].post.user.name)>>
                     /\ FragmentsAt(j)[1].el = "p"

\* One Author suppressed under a profile-page post and one Author shown
\* under a post that is not on the profile page, in the same pass.
C3_Witness ==
    /\ status # "error"
    /\ \E i, j \in Positions :
          /\ tree[i].type = "PostCardAuthor" /\ tree[j].type = "PostCardAuthor"
          /\ NearestProvider(tree, i) # 0 /\ NearestProvider(tree, j) # 0
          /\ tree[NearestProvider(tree, i)].post.isOnProfilePage = Bool(TRUE)
          /\ tree[NearestProvider(tree, j)].post.isOnProfilePage = Bool(FALSE)
          /\ FragmentsAt(i) = <<>>
          /\ TextsAt(j) = <<"By A">>

\* ------------------------------------------------------------------- C4
\* C4: of two sibling providers with distinct posts R1 and R2, every leaf
\* under Provider(R1) renders from R1 and every leaf under Provider(R2)
\* from R2, in either order of the siblings; where the two posts differ in
\* the field a leaf shows, the leaf does not show the other post's field.
C4_SiblingIsolation ==
    status # "error" =>
        \A p, q \in Positions :
            (Siblings(tree, p, q) /\ tree[p].post # tree[q].post) =>
                \A j \in Positions :
                    tree[j].type \in LeafTypes =>
                        LET own == NearestProvider(tree, j)
                            other == IF own = p THEN q ELSE p IN
                        own \in {p, q} =>
                            /\ TextsAt(j) = LeafText(tree[j].type, tree[own].post)
                            /\ LeafText(tree[j].type, tree[own].post)
                                  # LeafText(tree[j].type, tree[other].post)
                               => TextsAt(j)
                                  # LeafText(tree[j].type, tree[other].post)

\* Two sibling providers with different ids, an Id leaf rendered in each.
C4_Witness ==
    /\ status # "error"
    /\ \E p, q, i, j \in Positions :
          /\ Siblings(tree, p, q)
          /\ tree[p].post.id # tree[q].post.id
          /\ tree[i].type = "PostCardId" /\ tree[j].type = "PostCardId"
          /\ NearestProvider(tree, i) = p /\ NearestProvider(tree, j) = q
          /\ TextsAt(i) = <<IdText(tree[p].post.id)>>
          /\ TextsAt(j) = <<IdText(tree[q].post.id)>>
          /\ TextsAt(i) # TextsAt(j)

\* ------------------------------------------------------------------- C5
\* C5: with Provider(R1) around Provider(R2), the channel value a leaf sees
\* is that of its nearest enclosing provider: R2 inside the inner subtree,
\* R1 in the outer subtree before and after the inner one.
ChannelAt(t, j) ==
    IF NearestProvider(t, j) = 0 THEN Undefined
    ELSE Obj(t[NearestProvider(t, j)].post)

C5_NestedShadowing ==
    /\ status = "rendering" => useContext(ctx) = ChannelAt(tree, Len(tree) + 1)
    /\ status # "error" =>
          \A p, q \in Positions :
              (IsProvider(tree[p]) /\ IsProvider(tree[q])
                 /\ Encloses(tree, p, q)) =>
                  \A j \in Positions :
                      tree[j].type \in GuardedLeafTypes =>
                          /\ NearestProvider(tree, j) = q =>
                                TextsAt(j) = LeafText(tree[j].type, tree[q].post)
                          /\ NearestProvider(tree, j) = p =>
                                TextsAt(j) = LeafText(tree[j].type, tree[p].post)

\* Provider(R1) around Provider(R2) with different titles; a Title inside
\* the inner one shows R2.title, a Title after it shows R1.title.
C5_Witness ==
    /\ status # "error"
    /\ \E p, q, i, j \in Positions :
          /\ IsProvider(tree[p]) /\ IsProvider(tree[q])
          /\ Encloses(tree, p, q)
          /\ tree[p].post.title # tree[q].post.title
          /\ tree[i].type = "PostCardTitle" /\ tree[j].type = "PostCardTitle"
          /\ Encloses(tree, q, i)
          /\ CloseOf(tree, q) < j /\ Encloses(tree, p, j)
          /\ TextsAt(i) = <<tree[q].post.title>>
          /\ TextsAt(j) = <<tree[p].post.title>>

\* ------------------------------------------------------------------- C6
\* C6: the guard returns the value of the nearest enclosing provider, whose
\* post is that provider's post, for every post (also one whose fields are
\* all falsy), and throws only when no provider encloses the position.
C6_GuardPresenceCheck ==
    /\ status = "rendering" =>
          LET p == NearestProvider(tree, Len(tree) + 1)
              r == usePostCardContext(ctx) IN
          IF p = 0 THEN r.threw
          ELSE ~r.threw /\ r.value.post = tree[p].post
    /\ status = "error" =>
          /\ tree[Len(tree)].type \in GuardedLeafTypes
          /\ NearestProvider(tree, Len(tree)) = 0
    /\ \A j \in Positions :
          (tree[j].type \in GuardedLeafTypes /\ NearestProvider(tree, j) # 0)
              => /\ ~(status = "error" /\ j = Len(tree))
                 /\ (status # "error" /\ tree[j].type # "PostCardAuthor")
                       => FragmentsAt(j) # <<>>

\* Id and Title rendered inside the provider of the post whose id is 0,
\* whose title and content are empty and whose isOnProfilePage is absent.
C6_Witness ==
    /\ status = "done"
    /\ \E p, i, j \in Positions :
          /\ IsProvider(tree[p]) /\ tree[p].post = FalsyPost
          /\ tree[i].type = "PostCardId" /\ tree[j].type = "PostCardTitle"
          /\ NearestProvider(tree, i) = p /\ NearestProvider(tree, j) = p
          /\ TextsAt(i) = <<"0">>
          /\ TextsAt(j) = <<"">>

\* ------------------------------------------------------------------- C7
\* C7: once a guarded leaf has been rendered with no enclosing provider,
\* the pass is in the error outcome with the guard's Error and has no
\* output; it is never a successful pass with an empty fragment for the leaf.
C7_MisuseIsLoud ==
    \A j \in Positions :
        (tree[j].type \in GuardedLeafTypes /\ NearestProvider(tree, j) = 0)
            => /\ status = "error"
               /\ error = ErrorMessage
               /\ output = <<>>
               /\ j = Len(tree)

\* A Content leaf with no provider, rendered after an Actions leaf that had
\* already produced output: the pass is in error and the output is gone.
C7_Witness ==
    /\ status = "error"
    /\ Len(tree) = 2
    /\ tree[1].type = "PostCardActions"
    /\ tree[2].type = "PostCardContent"
    /\ output = <<>>
    /\ error = ErrorMessage

\* ------------------------------------------------------------------- C8
\* C8: a guarded leaf that comes after a provider element, outside its
\* children and with no provider of its own, raises the error and renders
\* nothing of that provider's post; a guarded leaf that comes before every
\* provider raises the error too, and no provider is rendered after it.
C8_NoVisibilityOutsideSubtree ==
    /\ \A p, j \in Positions :
          (/\ IsProvider(tree[p])
           /\ CloseOf(tree, p) < j
           /\ tree[j].type \in GuardedLeafTypes
           /\ NearestProvider(tree, j) = 0)
              => /\ status = "error"
                 /\ FragmentsAt(j) = <<>>
                 /\ ctx = <<>>
    /\ \A j \in Positions :
          (/\ tree[j].type \in GuardedLeafTypes
           /\ \A p \in 1..(j - 1) : ~IsProvider(tree[p]))
              => /\ status = "error"
                 /\ FragmentsAt(j) = <<>>
                 /\ \A q \in Positions : ~IsProvider(tree[q])

\* Provider(R) with a Title inside, closed, then a Title as its sibling.
C8_Witness ==
    /\ status = "error"
    /\ \E p, i, j \in Positions :
          /\ IsProvider(tree[p])
          /\ tree[i].type = "PostCardTitle" /\ NearestProvider(tree, i) = p
          /\ CloseOf(tree, p) < j
          /\ tree[j].type = "PostCardTitle" /\ NearestProvider(tree, j) = 0
          /\ j = Len(tree)

\* ------------------------------------------------------------------- C9
\* C9: the output holds the fragment of a leaf only where the caller put
\* that leaf: every fragment comes from the element at its position, and a
\* pass without an Actions leaf has no button, one without an Author leaf
\* no "By ..." text, one without a Title leaf no h2.
AuthorTexts == {AuthorText(n) : n \in {"A", "Z"}}
Composed(type) == \E j \in Positions : tree[j].type = type

C9_OmittedLeafLeavesNoTrace ==
    /\ \A k \in 1..Len(output) :
          /\ output[k].at \in Positions
          /\ tree[output[k].at].type = output[k].leaf
    /\ ~Composed("PostCardActions") =>
          \A k \in 1..Len(output) : output[k].el # "button"
    /\ ~Composed("PostCardAuthor") =>
          \A k \in 1..Len(output) : output[k].text \notin AuthorTexts
    /\ ~Composed("PostCardTitle") =>
          \A k \in 1..Len(output) : output[k].el # "h2"
    /\ (~Composed("PostCardContent") /\ ~Composed("PostCardAuthor")) =>
          \A k \in 1..Len(output) : output[k].el # "p"

\* A finished card with Id and Title only: no button, no author line.
C9_Witness ==
    /\ status = "done"
    /\ Len(tree) = 4
    /\ IsProvider(tree[1])
    /\ tree[2].type = "PostCardId" /\ tree[3].type = "PostCardTitle"
    /\ tree[4].type = "end"
    /\ Len(LeafFragments) = 2
    /\ \A k \in 1..Len(output) :
          output[k].el # "button" /\ output[k].text \notin AuthorTexts

\* ------------------------------------------------------------------ C10
\* C10: the fragments are in the document in the order the caller composed
\* the leaves.  For the scenario post, the children Id, Title, Content,
\* Author give "3", "T", "B", "By A", and any permutation of these four
\* children gives the same permutation of the four texts.
ScenarioText(type) ==
    CASE type = "PostCardId" -> "3"
      [] type = "PostCardTitle" -> "T"
      [] type = "PostCardContent" -> "B"
      [] type = "PostCardAuthor" -> "By A"

FourLeaves ==
    /\ Len(tree) >= 5
    /\ tree[1] = [type |-> "PostCardComponent", post |-> ScenarioPost]
    /\ {tree[k].type : k \in 2..5} = GuardedLeafTypes

C10_DocumentOrder ==
    /\ \A k, l \in 1..Len(output) : k < l => output[k].at <= output[l].at
    /\ (status # "error" /\ FourLeaves) =>
          /\ Len(LeafTexts) >= 4
          /\ \A k \in 1..4 : LeafTexts[k] = ScenarioText(tree[k + 1].type)
    /\ (status # "error" /\ FourLeaves
          /\ tree[2].type = "PostCardId" /\ tree[3].type = "PostCardTitle"
          /\ tree[4].type = "PostCardContent" /\ Len(tree) = 5) =>
          LeafTexts = <<"3", "T", "B", "By A">>

\* The finished scenario card: Id, Title, Content, Author in that order.
C10_Witness ==
    /\ status = "done"
    /\ Len(tree) = 6
    /\ FourLeaves
    /\ tree[2].type = "PostCardId" /\ tree[3].type = "PostCardTitle"
    /\ tree[4].type = "PostCardContent" /\ tree[5].type = "PostCardAuthor"
    /\ tree[6].type = "end"
    /\ LeafTexts = <<"3", "T", "B", "By A">>

\* A finished scenario card with the four leaves in another order.
C10_WitnessPermuted ==
    /\ status = "done"
    /\ FourLeaves
    /\ tree[2].type = "PostCardAuthor" /\ tree[3].type = "PostCardContent"
    /\ tree[4].type = "PostCardTitle" /\ tree[5].type = "PostCardId"
    /\ LeafTexts = <<"By A", "B", "T", "3">>

\* ------------------------------------------------------------------ C11
\* C11: the provider renders its children as given and cannot fail.  A pass
\* whose tree holds no guarded leaf (providers with any post, with markup,
\* with Actions or with no children at all) is never in error; a provider
\* puts exactly its own wrapper in the document; and no child element is
\* filtered out: every div and every leaf other than a suppressed Author
\* has its fragment, at its own place.
WrapperOf(j) == Fragment(j, "PostCardComponent", "div", "")

C11_ProviderIsTransparent ==
    /\ (\A j \in Positions : tree[j].type \notin GuardedLeafTypes)
          => status # "error"
    /\ status # "error" =>
          \A j \in Positions :
              /\ IsProvider(tree[j]) => FragmentsAt(j) = <<WrapperOf(j)>>
              /\ tree[j].type \in ({"div"} \cup LeafTypes) \ {"PostCardAuthor"}
                    => FragmentsAt(j) # <<>>
              /\ tree[j].type = "end" => FragmentsAt(j) = <<>>

\* A finished pass that is one provider of the all-falsy post, no children.
C11_Witness ==
    /\ status = "done"
    /\ tree = <<[type |-> "PostCardComponent", post |-> FalsyPost],
                [type |-> "end"]>>
    /\ output = <<WrapperOf(1)>>

\* ------------------------------------------------------------------ C12
\* C12: an Actions leaf the caller included renders the two buttons
\* "Read More" and "Like", the same for every post and with or without a
\* provider; isOnProfilePage has no effect on it.
ActionsFragments(j) ==
    <<Fragment(j, "PostCardActions", "button", "Read More"),
      Fragment(j, "PostCardActions", "button", "Like")>>

C12_ActionsAreStatic ==
    status # "error" =>
        \A j \in Positions :
            tree[j].type = "PostCardActions" =>
                FragmentsAt(j) = ActionsFragments(j)

\* Actions under a profile-page post and Actions under a post that is not
\* on the profile page, both with the two buttons.
C12_Witness ==
    /\ status # "error"
    /\ \E i, j \in Positions :
          /\ tree[i].type = "PostCardActions" /\ tree[j].type = "PostCardActions"
          /\ NearestProvider(tree, i) # 0 /\ NearestProvider(tree, j) # 0
          /\ tree[NearestProvider(tree, i)].post.isOnProfilePage = Bool(TRUE)
          /\ tree[NearestProvider(tree, j)].post.isOnProfilePage = Bool(FALSE)
          /\ TextsAt(i) = <<"Read More", "Like">>
          /\ TextsAt(j) = <<"Read More", "Like">>

\* ------------------------------------------------------------------ C13
\* C13: the missing provider is the only failure.  A pass in error ended on
\* a guarded leaf with no enclosing provider; a pass in which every leaf has
\* an enclosing provider is never in error; and while tags remain, each
\* leaf can be rendered at once (nothing blocks) and a pass whose elements
\* are all closed can complete.
C13_OnlyFailureIsMissingProvider ==
    /\ status = "error" =>
          /\ tree # <<>>
          /\ tree[Len(tree)].type \in GuardedLeafTypes
          /\ NearestProvider(tree, Len(tree)) = 0
          /\ error = ErrorMessage
    /\ (\A j \in Positions :
            tree[j].type \in LeafTypes => NearestProvider(tree, j) # 0)
          => status # "error"
    /\ (status = "rendering" /\ Len(tree) < page.size) =>
          /\ ENABLED RenderId /\ ENABLED RenderTitle /\ ENABLED RenderContent
          /\ ENABLED RenderAuthor /\ ENABLED RenderActions
    /\ (status = "rendering" /\ tree # <<>> /\ open = <<>>) => ENABLED Commit

\* A finished card whose post has no isOnProfilePage, with Author and Actions.
C13_Witness ==
    /\ status = "done"
    /\ Len(tree) = 4
    /\ IsProvider(tree[1]) /\ tree[1].post.isOnProfilePage = Undefined
    /\ tree[2].type = "PostCardAuthor" /\ tree[3].type = "PostCardActions"
    /\ tree[4].type = "end"
    /\ Len(LeafFragments) = 3

\* ------------------------------------------------------------------ C14
\* C14: the channel has one writer.  A step changes the context stack only
\* by a provider pushing its own value, once, or by that provider's subtree
\* being left; the values already on the stack are never altered; and the
\* render of a leaf, whether it succeeds or throws, leaves the stack as it
\* was.
Last(s) == s[Len(s)]
Grew == Len(tree') = Len(tree) + 1

C14_SingleWriter ==
    [][ /\ (Grew /\ IsProvider(Last(tree')))
              => ctx' = Append(ctx, Obj(Last(tree').post))
        /\ (Grew /\ Last(tree').type \in LeafTypes) => ctx' = ctx
        /\ (Grew /\ Last(tree').type = "div") => ctx' = ctx
        /\ (Grew /\ Last(tree').type = "end")
              => (ctx' = ctx \/ ctx' = SubSeq(ctx, 1, Len(ctx) - 1))
        /\ ~Grew => ctx' = ctx
      ]_vars

\* A leaf was rendered under a provider and the provider's value is still
\* the one on the channel.
C14_Witness ==
    /\ status = "rendering"
    /\ Len(tree) = 3
    /\ IsProvider(tree[1]) /\ tree[1].post.title = "T"
    /\ tree[2].type = "PostCardTitle" /\ tree[3].type = "PostCardAuthor"
    /\ ctx = <<Obj(tree[1].post)>>
    /\ TextsAt(2) = <<"T">>

\* ------------------------------------------------------------------ C15
\* C15: during one pass the record of a provider does not change.  While
\* rendering, the stack holds exactly the posts of the providers that are
\* open, outermost first, each as it was given in the tree; and all the
\* guarded leaves that have the same nearest provider render from that one
\* post, the first as the last.
OpenProviders ==
    {p \in Positions : IsProvider(tree[p]) /\ CloseOf(tree, p) > Len(tree)}

C15_RecordStableDuringPass ==
    /\ status = "rendering" =>
          /\ Len(ctx) = Cardinality(OpenProviders)
          /\ \A p \in OpenProviders :
                ctx[Cardinality({q \in OpenProviders : q <= p})]
                    = Obj(tree[p].post)
    /\ status # "error" =>
          \A i, j \in Positions :
              (/\ tree[i].type \in GuardedLeafTypes
               /\ tree[j].type \in GuardedLeafTypes
               /\ NearestProvider(tree, i) # 0
               /\ NearestProvider(tree, i) = NearestProvider(tree, j))
                  => LET r == tree[NearestProvider(tree, i)].post IN
                     /\ TextsAt(i) = LeafText(tree[i].type, r)
                     /\ TextsAt(j) = LeafText(tree[j].type, r)

\* A provider with a Title before and a Title after a nested provider of
\* another post: both Titles show the outer post's title.
C15_Witness ==
    /\ status # "error"
    /\ \E p, i, q, j \in Positions :
          /\ p < i /\ i < q /\ CloseOf(tree, q) < j
          /\ IsProvider(tree[p]) /\ IsProvider(tree[q])
          /\ tree[p].post.title # tree[q].post.title
          /\ tree[i].type = "PostCardTitle" /\ tree[j].type = "PostCardTitle"
          /\ NearestProvider(tree, i) = p /\ NearestProvider(tree, j) = p
          /\ TextsAt(i) = <<tree[p].post.title>>
          /\ TextsAt(j) = TextsAt(i)

\* ------------------------------------------------------------------ C18
\* C18: an Author leaf under a post without isOnProfilePage renders
\* "By {user.name}", as it does for the same post with the flag false.
C18_AbsentFlagShowsAuthor ==
    status # "error" =>
        \A j \in Positions :
            LET p == NearestProvider(tree, j) IN
            (/\ tree[j].type = "PostCardAuthor"
             /\ p # 0
             /\ tree[p].post.isOnProfilePage = Undefined)
                => /\ TextsAt(j) = <<AuthorText(tree[p].post.user.name)>>
                   /\ TextsAt(j) = LeafText("PostCardAuthor",
                         [tree[p].post EXCEPT !.isOnProfilePage = Bool(FALSE)])

\* Author rendered under the post that has no isOnProfilePage.
C18_Witness ==
    /\ status # "error"
    /\ Len(tree) >= 2
    /\ tree[1] = [type |-> "PostCardComponent", post |-> FalsyPost]
    /\ tree[2].type = "PostCardAuthor"
    /\ FragmentsAt(2) = <<Fragment(2, "PostCardAuthor", "p", "By A")>>

\* ------------------------------------------------------------------ C20
\* C20: the Error of the guard has one message, which names Title,
\* whichever of Id, Title, Content, Author threw; a pass not in error has
\* no message.
C20_FixedErrorMessage ==
    /\ status = "error" =>
          /\ tree[Len(tree)].type \in GuardedLeafTypes
          /\ error =
               "PostCardComponent.Title must be used within a PostCardComponent"
    /\ status # "error" => error = ""

\* The error thrown by an Id leaf carries the message that names Title.
C20_Witness ==
    /\ status = "error"
    /\ tree[Len(tree)].type = "PostCardId"
    /\ error = "PostCardComponent.Title must be used within a PostCardComponent"

\* ------------------------------------------------------------------ C16
\* C16: in AntiPostCard the two flags act independently.  The author line
\* is shown exactly when isOnProfilePage is not true and the two buttons
\* exactly when shouldDisplayButtons is true, each whatever the other flag
\* is; id, title and content are always shown.
Shown(frags) == [k \in 1..Len(frags) |-> <<frags[k].el, frags[k].text>>]
IsMarkup(f) == f.el = "div" /\ f.text = ""
Parts(j) == Shown(SelectSeq(FragmentsAt(j), LAMBDA f : ~IsMarkup(f)))
Has(parts, x) == \E k \in 1..Len(parts) : parts[k] = x

C16_FlagsAreIndependent ==
    \A j \in Positions :
        tree[j].type = "AntiPostCard" =>
            LET post == tree[j].post
                parts == Parts(j) IN
            /\ Len(parts) >= 3
            /\ parts[1] = <<"div", IdText(post.id)>>
            /\ parts[2] = <<"h2", post.title>>
            /\ parts[3] = <<"p", post.content>>
            /\ Has(parts, <<"p", AuthorText(post.user.name)>>)
                  <=> post.isOnProfilePage # Bool(TRUE)
            /\ Has(parts, <<"button", "Read More">>)
                  <=> post.shouldDisplayButtons = Bool(TRUE)
            /\ Has(parts, <<"button", "Like">>)
                  <=> post.shouldDisplayButtons = Bool(TRUE)
            /\ Len(parts) = 3
                  + (IF post.isOnProfilePage # Bool(TRUE) THEN 1 ELSE 0)
                  + (IF post.shouldDisplayButtons = Bool(TRUE) THEN 2 ELSE 0)

\* The two cards of App: author without buttons, and buttons without author.
C16_Witness ==
    /\ Len(tree) = 2
    /\ tree[1].type = "AntiPostCard" /\ tree[2].type = "AntiPostCard"
    /\ tree[1].post.isOnProfilePage = Bool(FALSE)
    /\ tree[1].post.shouldDisplayButtons = Bool(FALSE)
    /\ tree[2].post.isOnProfilePage = Bool(TRUE)
    /\ tree[2].post.shouldDisplayButtons = Bool(TRUE)
    /\ Len(Parts(1)) = 4 /\ Parts(1)[4] = <<"p", "By A">>
    /\ Len(Parts(2)) = 5 /\ Parts(2)[5] = <<"button", "Like">>

\* ------------------------------------------------------------------ C19
\* C19: the compound card with the children Id, Title, Content, Author,
\* Actions shows what AntiPostCard shows for the same post with
\* shouldDisplayButtons true, and with the children Id, Title, Content,
\* Author what AntiPostCard shows with shouldDisplayButtons false.
AntiParts(post, b) ==
    Shown(SelectSeq(AntiPostCard(WithButtons(post, Bool(b)), 1),
                    LAMBDA f : ~IsMarkup(f)))

CardOfFour ==
    /\ status # "error"
    /\ Len(tree) >= 5
    /\ IsProvider(tree[1])
    /\ tree[2].type = "PostCardId" /\ tree[3].type = "PostCardTitle"
    /\ tree[4].type = "PostCardContent" /\ tree[5].type = "PostCardAuthor"

\* The fragments of the leaves that are children of the card at position 1.
CardFragments ==
    SelectSeq(output, LAMBDA f : f.leaf \in LeafTypes /\ Encloses(tree, 1, f.at))

C19_CompoundMatchesAnti ==
    /\ (CardOfFour /\ (Len(tree) = 5 \/ tree[6].type = "end")) =>
          Shown(CardFragments) = AntiParts(tree[1].post, FALSE)
    /\ (CardOfFour /\ Len(tree) >= 6 /\ tree[6].type = "PostCardActions"
          /\ (Len(tree) = 6 \/ tree[7].type = "end")) =>
          Shown(CardFragments) = AntiParts(tree[1].post, TRUE)

\* The whole card of the profile-page post with all five children.
C19_Witness ==
    /\ CardOfFour
    /\ Len(tree) = 6
    /\ tree[1].post = ProfilePost
    /\ tree[6].type = "PostCardActions"
    /\ Shown(CardFragments) =
          <<<<"div", "12">>, <<"h2", "U">>, <<"p", "C">>,
            <<"button", "Read More">>, <<"button", "Like">>>>

\* The finished card of the post without the flag, with four children.
C19_WitnessFour ==
    /\ CardOfFour
    /\ status = "done"
    /\ tree[1].post = FalsyPost
    /\ Shown(CardFragments) =
          <<<<"div", "0">>, <<"h2", "">>, <<"p", "">>, <<"p", "By A">>>>

\* ------------------------------------------------------------------ C17
\* C17: setUser(u) makes u the current user and calls every listener
\* subscribed so far exactly once with u, in the order of subscription,
\* leaving the listeners as they were.  With Header, Sidebar, Dashboard
\* subscribed in that order, setUser({name: "ABC"}) writes the three lines
\* Header, Sidebar, Dashboard.
IsSetUser == user' # user \/ log' # log

C17_NotifyInSubscriptionOrder ==
    [][ /\ IsSetUser =>
              /\ user' \in Users
              /\ listeners' = listeners
              /\ Len(log') = Len(log) + Len(listeners)
              /\ SubSeq(log', 1, Len(log)) = log
              /\ \A k \in 1..Len(listeners) :
                    log'[Len(log) + k]
                        = listeners[k] \o " updated: " \o user'.name
        /\ (IsSetUser /\ listeners = <<"Header", "Sidebar", "Dashboard">>
              /\ user' = [name |-> "ABC"]) =>
              log' = log \o <<"Header updated: ABC", "Sidebar updated: ABC",
                              "Dashboard updated: ABC">>
        /\ listeners' # listeners =>
              /\ user' = user /\ log' = log
              /\ SubSeq(listeners', 1, Len(listeners)) = listeners
      ]_vars

\* The documented run: three subscriptions, then setUser({name: "ABC"}).
C17_Witness ==
    /\ listeners = <<"Header", "Sidebar", "Dashboard">>
    /\ user = [name |-> "ABC"]
    /\ log = <<"Header updated: ABC", "Sidebar updated: ABC",
               "Dashboard updated: ABC">>
==========================================================================
